---- MODULE Spec2Model ----
(***************************************************************************)
(* A model of the "taste" subsystem of get-me-a-date                       *)
(* (src/unnamed/part_000): the synchronizer that reconciles the training   *)
(* images of the S3 bucket with the face records of the Rekognition         *)
(* collection, face indexing, and the photo check-out pipeline.            *)
(*                                                                         *)
(* Every service call (S3, Rekognition, HTTP, database) is asynchronous:   *)
(* the step that issues it and the step that handles its reply are         *)
(* separate actions, and the call takes its effect on the service when it  *)
(* replies.  A reply may be a success or an error.                         *)
(***************************************************************************)
EXTENDS Integers, Sequences, FiniteSets, TLC

\* ------------------------------------------------------------- bounds
NumFiles == 2        \* training images the bucket may hold
MaxInitFaces == 2    \* face records the collection may hold at the start
MaxFaces == 2        \* most face records one indexFaces response carries
MaxPasses == 2       \* sync passes one caller runs
NumPhotos == 2       \* photo records
MaxBatch == 2        \* photos one checkPhotosOut call is given
MaxResults == 3      \* per-photo results the aggregation is checked on
MaxStarts == 2       \* calls of start()
NumMessages == 2     \* messages
MaxSeries == 3       \* messages one readMessages call is given

\* ---------------------------------------------------------- constants
\* mutant: the cap is one no batch reaches
Concurrency_whole == MaxBatch + MaxBatch

\* { concurrency: 2 } of every Promise.map of the file
Concurrency == 2

\* values of JavaScript that are not numbers
undefined == -1
Pending == -2
NaN == -3
null == -4
\* new Date().toISOString(): of a date only that it is set matters to the code
isoDate == 1
\* likePhotosThreshold of a settings record created with its defaults, in
\* hundredths of a percent
DefaultThreshold == 8000

Procs == {1, 2}

\* the lengths of data.FaceRecords the code tells apart (line 48): no face,
\* exactly one, and several, up to MaxFaces
FaceCounts == {0, 1, MaxFaces}

Channel == "channel123"
\* the file names of photos
Files == {"f" \o ToString(i) \o ".jpg" : i \in 1..NumFiles}
\* an object key is the sequence of its path segments
TrainKeys == {<<"train", Channel, f>> : f \in Files}

\* error.code of a failed Rekognition call, and of a failed S3 call
RekognitionErrors ==
  {"InvalidImageFormatException", "InvalidParameterException", "ThrottlingException"}
S3Errors == {"ServiceUnavailable"}

VARIABLES
  bucket,       \* the object keys of the S3 bucket
  collection,   \* the face records of the Rekognition collection
  sync,         \* per caller: the state of its sync pass
  obs,          \* per caller: what its pass did (history, read by the properties only)
  photo,        \* the photo records, which the callers own and pass by reference
  settings,     \* likePhotosThreshold of the settings record, null without a record
  batch,        \* per caller: the state of its checkPhotosOut call
  issued,       \* per photo: the calls the current checkPhotosOut issued for it (history)
  boot,         \* start(): the provisioning of the collection and of the bucket
  snap,         \* the state of a mentalSnapshot call
  acq,          \* the state of an acquireTaste call
  inbox         \* the state of a readMessages call, and the messages table

syncVars == <<bucket, collection, sync, obs>>
checkVars == <<photo, settings, batch, issued>>
syncState == <<collection, sync, obs>>
restVars == <<boot, snap, acq, inbox>>
vars == <<bucket, collection, sync, obs, photo, settings, batch, issued,
          boot, snap, acq, inbox>>

\* ------------------------------------------------------------ helpers
Face(id, key) == [FaceId |-> id, ExternalImageId |-> key]

\* _.filter(Faces, { ExternalImageId: externalImageId })
recordsOf(faces, k) == {f \in faces : f.ExternalImageId = k}

\* _.difference(a, b)
difference(a, b) == a \ b

\* _(Faces).map(({ ExternalImageId }) => ExternalImageId).uniq().value()
currentImages(Faces) == {f.ExternalImageId : f \in Faces}

\* s3.listObjects(bucket, 'train')
listObjects(prefix) == {k \in bucket : k[1] = prefix}

\* the error codes the catch handlers treat as a malformed image
IsInvalidImageError(code) ==
  code \in {"InvalidImageFormatException", "InvalidParameterException"}

\* the FaceRecords of an indexFaces response: [{ Face: { FaceId } }]
FaceRecordsOf(ids) == {[Face |-> [FaceId |-> i]] : i \in ids}

\* mutant: only the first face id is handed to deleteFaces
faceIdsOf_first(FaceRecords) ==
  {r.Face.FaceId : r \in {x \in FaceRecords :
                            \A y \in FaceRecords : x.Face.FaceId[3] <= y.Face.FaceId[3]}}

\* _.map(data.FaceRecords, ({ Face }) => Face.FaceId)
faceIdsOf(FaceRecords) == {r.Face.FaceId : r \in FaceRecords}

\* mutant: only an image without any face is purged
IsUnusable_onlyEmpty(n) == n = 0

\* data.FaceRecords.length !== 1: the image is unusable
IsUnusable(n) == n # 1

InFlightStates == {"indexFaces", "deleteFaces", "deleteObject", "catchDeleteObject"}

\* the mapper calls of indexFacesFromImages that have started and not finished
inFlight(p) == {k \in TrainKeys : sync[p].item[k] \in InFlightStates}

\* mutant: a pass waits until no pass of any caller is under way
Quiescent_exclusive(p) ==
  \A q \in Procs :
    /\ sync[q].pc \in {"idle", "done", "failed"}
    /\ inFlight(q) = {}
    /\ sync[q].deletedFaces # Pending

\* no call of the caller's pass is outstanding
Quiescent(p) ==
  /\ sync[p].pc \in {"idle", "done", "failed"}
  /\ inFlight(p) = {}
  /\ sync[p].deletedFaces # Pending

IdlePass ==
  [pc |-> "idle", gotFaces |-> FALSE, gotImages |-> FALSE,
   currentFaces |-> {}, availableImages |-> {},
   imagesToDelete |-> {}, imagesToIndex |-> {}, facesToDelete |-> {},
   deletedFaces |-> undefined, item |-> [k \in TrainKeys |-> "none"],
   FaceRecords |-> [k \in TrainKeys |-> {}],
   indexedFaces |-> 0, returned |-> Pending, total |-> Pending]

NoObs ==
  [started |-> 0, completed |-> 0, before |-> {}, swallowed |-> FALSE,
   prev |-> "none", last |-> "none", prevIndexed |-> 0, lastIndexed |-> 0,
   reply |-> [k \in TrainKeys |-> "none"],
   calls |-> [k \in TrainKeys |-> <<>>],
   deleteFacesFailed |-> [k \in TrainKeys |-> FALSE],
   deleteObjectFailed |-> [k \in TrainKeys |-> FALSE]]

\* a FaceId names the image it was detected in, the indexFaces call that
\* detected it and its place in the response of that call
FaceIds(k, c, n) == {<<k, c, j>> : j \in 1..n}

RECURSIVE Sum(_, _)
Sum(f, S) ==
  IF S = {} THEN 0
  ELSE LET x == CHOOSE y \in S : TRUE IN f[x] + Sum(f, S \ {x})

\* the collections a pass may find: up to MaxInitFaces face records in all,
\* several of which may belong to one image
InitCollections ==
  {UNION {{Face(id, k) : id \in FaceIds(k, 0, n[k])} : k \in TrainKeys} :
     n \in {m \in [TrainKeys -> 0..MaxInitFaces] : Sum(m, TrainKeys) <= MaxInitFaces}}

\* the face ids a face record or a call under way refers to
referencedIds ==
  {f.FaceId : f \in collection} \cup
  UNION {{f.FaceId : f \in sync[p].currentFaces} \cup sync[p].facesToDelete \cup
         UNION {faceIdsOf(sync[p].FaceRecords[k]) : k \in TrainKeys} : p \in Procs}

\* Rekognition hands out face ids that nothing refers to
freshCall(k) ==
  LET used == {id[2] : id \in {i \in referencedIds : i[1] = k}}
      free == (0..Cardinality(used)) \ used
  IN CHOOSE c \in free : \A d \in free : c <= d

SyncStateInit ==
  /\ bucket \in SUBSET TrainKeys
  /\ collection \in InitCollections
  /\ sync = [p \in Procs |-> IdlePass]
  /\ obs = [p \in Procs |-> NoObs]

\* ------------------------------------------ syncS3BucketAndRekognitionCollection
\* the call: listFaces and listObjects are issued together (Promise.props)
Begin(p) ==
  /\ Quiescent(p)
  /\ obs[p].started < MaxPasses
  /\ sync' = [sync EXCEPT ![p] = [IdlePass EXCEPT !.pc = "listing"]]
  /\ obs' = [obs EXCEPT ![p] = [NoObs EXCEPT !.started = obs[p].started + 1,
                                             !.completed = obs[p].completed,
                                             !.prev = obs[p].last,
                                             !.last = obs[p].last,
                                             !.prevIndexed = obs[p].lastIndexed,
                                             !.lastIndexed = obs[p].lastIndexed,
                                             !.before = collection]]

SyncStart(p) ==
  /\ Begin(p)
  /\ UNCHANGED <<bucket, collection, checkVars, restVars>>

\* rekognition.listFaces replies
ListFacesReply(p) ==
  /\ sync[p].pc = "listing"
  /\ ~sync[p].gotFaces
  /\ sync' = [sync EXCEPT ![p].gotFaces = TRUE, ![p].currentFaces = collection]
  /\ UNCHANGED <<bucket, collection, obs, checkVars, restVars>>

\* s3.listObjects replies
ListObjectsReply(p) ==
  /\ sync[p].pc = "listing"
  /\ ~sync[p].gotImages
  /\ sync' = [sync EXCEPT ![p].gotImages = TRUE,
                          ![p].availableImages = listObjects("train")]
  /\ UNCHANGED <<bucket, collection, obs, checkVars, restVars>>

\* one of the two listings fails: Promise.props rejects and so does the pass
ListFails(p) ==
  /\ sync[p].pc = "listing"
  /\ ~(sync[p].gotFaces /\ sync[p].gotImages)
  /\ sync' = [sync EXCEPT ![p].pc = "failed",
                          ![p].gotFaces = TRUE, ![p].gotImages = TRUE]
  /\ obs' = [obs EXCEPT ![p].last = "failed"]
  /\ UNCHANGED <<bucket, collection, checkVars, restVars>>

\* mutant: no stale image is ever selected for deletion
imagesToDeleteOf_none(Faces, availableImages) == {}

imagesToDeleteOf(Faces, availableImages) ==
  difference(currentImages(Faces), availableImages)

\* mutant: every available image is indexed, indexed before or not
imagesToIndexOf_all(Faces, availableImages) == availableImages

imagesToIndexOf(Faces, availableImages) ==
  difference(availableImages, currentImages(Faces))

\* the FaceId of every face record of an image to delete
facesToDeleteOf(Faces, images) ==
  {f.FaceId : f \in {g \in Faces : g.ExternalImageId \in images}}

\* both listings are in: the differences are taken, deleteFaces is issued and
\* indexFacesFromImages is called with imagesToIndex
SyncDiff(p) ==
  /\ sync[p].pc = "listing"
  /\ sync[p].gotFaces /\ sync[p].gotImages
  /\ LET Faces == sync[p].currentFaces
         del == imagesToDeleteOf(Faces, sync[p].availableImages)
         idx == imagesToIndexOf(Faces, sync[p].availableImages)
     IN sync' = [sync EXCEPT ![p].pc = "syncing",
                             ![p].imagesToDelete = del,
                             ![p].imagesToIndex = idx,
                             ![p].facesToDelete = facesToDeleteOf(Faces, del),
                             ![p].deletedFaces = Pending,
                             ![p].item = [k \in TrainKeys |->
                                            IF k \in idx THEN "queued" ELSE "none"]]
  /\ UNCHANGED <<bucket, collection, obs, checkVars, restVars>>

\* deleteFaces (lines 31-35) replies: the records are gone and the count is
\* returned, or the error is logged and the value of Logger.warn is returned
DeleteFacesReply(p) ==
  /\ sync[p].deletedFaces = Pending
  /\ \/ /\ collection' = {f \in collection : f.FaceId \notin sync[p].facesToDelete}
        /\ sync' = [sync EXCEPT ![p].deletedFaces = Cardinality(sync[p].facesToDelete)]
        /\ obs' = obs
     \/ /\ collection' = collection
        /\ sync' = [sync EXCEPT ![p].deletedFaces = undefined]
        /\ obs' = [obs EXCEPT ![p].swallowed = TRUE]
  /\ UNCHANGED <<bucket, checkVars, restVars>>

\* ------------------------------------------------------ indexFacesFromImages
\* what the .catch of the mapper (lines 57-63) does with an error: a malformed
\* image is deleted from the bucket, anything else is logged
catchIndexError(code) ==
  IF IsInvalidImageError(code) THEN "catchDeleteObject" ELSE "done"

Issued(p, k, call) == [obs[p] EXCEPT !.calls[k] = Append(@, call)]

\* Promise.map starts the mapper of an image: indexFaces is issued
MapStart(p, k) ==
  /\ sync[p].pc = "syncing"
  /\ sync[p].item[k] = "queued"
  /\ Cardinality(inFlight(p)) < Concurrency
  /\ sync' = [sync EXCEPT ![p].item[k] = "indexFaces"]
  /\ obs' = [obs EXCEPT ![p] = Issued(p, k, "indexFaces")]
  /\ UNCHANGED <<bucket, collection, checkVars, restVars>>

\* indexFaces replies with n face records, which the collection now holds
IndexFacesRecords(p, k, n) ==
  /\ sync[p].item[k] = "indexFaces"
  /\ k \in bucket
  /\ LET ids == FaceIds(k, freshCall(k), n)
     IN /\ collection' = collection \cup {Face(i, k) : i \in ids}
        /\ IF IsUnusable(n)
             THEN /\ sync' = [sync EXCEPT ![p].item[k] = "deleteFaces",
                                          ![p].FaceRecords[k] = FaceRecordsOf(ids)]
                  /\ obs' = [obs EXCEPT ![p] =
                               [Issued(p, k, "deleteFaces") EXCEPT !.reply[k] = "records"]]
             ELSE /\ sync' = [sync EXCEPT ![p].item[k] = "done",
                                          ![p].FaceRecords[k] = FaceRecordsOf(ids),
                                          ![p].indexedFaces = @ + 1]
                  /\ obs' = [obs EXCEPT ![p].reply[k] = "records"]
  /\ UNCHANGED <<bucket, checkVars, restVars>>

\* indexFaces replies without FaceRecords: the mapper returns (lines 43-45)
IndexFacesNoRecords(p, k) ==
  /\ sync[p].item[k] = "indexFaces"
  /\ k \in bucket
  /\ sync' = [sync EXCEPT ![p].item[k] = "done"]
  /\ obs' = [obs EXCEPT ![p].reply[k] = "norecords", ![p].swallowed = TRUE]
  /\ UNCHANGED <<bucket, collection, checkVars, restVars>>

\* indexFaces fails
IndexFacesError(p, k) ==
  /\ sync[p].item[k] = "indexFaces"
  /\ \E code \in (IF k \in bucket THEN RekognitionErrors
                                  ELSE {"InvalidS3ObjectException"}) :
       /\ sync' = [sync EXCEPT ![p].item[k] = catchIndexError(code)]
       /\ obs' = [obs EXCEPT ![p] =
                    IF IsInvalidImageError(code)
                      THEN [Issued(p, k, "deleteObject") EXCEPT !.reply[k] = "invalid"]
                      ELSE [obs[p] EXCEPT !.reply[k] = "error", !.swallowed = TRUE]]
  /\ UNCHANGED <<bucket, collection, checkVars, restVars>>

\* the deleteFaces of an unusable image (line 49) replies
PurgeFacesReply(p, k) ==
  /\ sync[p].item[k] = "deleteFaces"
  /\ \/ /\ collection' = {f \in collection : f.FaceId \notin faceIdsOf(sync[p].FaceRecords[k])}
        /\ sync' = [sync EXCEPT ![p].item[k] = "deleteObject"]
        /\ obs' = [obs EXCEPT ![p] = Issued(p, k, "deleteObject")]
     \/ /\ collection' = collection
        /\ \E code \in RekognitionErrors :
             /\ sync' = [sync EXCEPT ![p].item[k] = catchIndexError(code)]
             /\ obs' = [obs EXCEPT ![p] =
                          [(IF IsInvalidImageError(code)
                              THEN Issued(p, k, "deleteObject") ELSE obs[p])
                           EXCEPT !.deleteFacesFailed[k] = TRUE, !.swallowed = TRUE]]
  /\ UNCHANGED <<bucket, checkVars, restVars>>

\* the deleteObject that follows it (line 51) replies
PurgeObjectReply(p, k) ==
  /\ sync[p].item[k] = "deleteObject"
  /\ \/ /\ bucket' = bucket \ {k}
        /\ sync' = [sync EXCEPT ![p].item[k] = "done"]
        /\ obs' = obs
     \/ /\ bucket' = bucket
        /\ \E code \in S3Errors :
             sync' = [sync EXCEPT ![p].item[k] = catchIndexError(code)]
        /\ obs' = [obs EXCEPT ![p].deleteObjectFailed[k] = TRUE, ![p].swallowed = TRUE]
  /\ UNCHANGED <<collection, checkVars, restVars>>

\* the deleteObject of the .catch (line 59) replies; its failure is caught by
\* nobody: Promise.map rejects, and with it the pass
CatchDeleteObjectReply(p, k) ==
  /\ sync[p].item[k] = "catchDeleteObject"
  /\ \/ /\ bucket' = bucket \ {k}
        /\ sync' = [sync EXCEPT ![p].item[k] = "done"]
        /\ obs' = obs
     \/ /\ bucket' = bucket
        /\ sync' = [sync EXCEPT ![p].item[k] = "done",
                                ![p].pc = IF @ = "syncing" THEN "failed" ELSE @]
        /\ obs' = [obs EXCEPT ![p].last = "failed"]
  /\ UNCHANGED <<collection, checkVars, restVars>>

\* every mapper has finished: .then(() => indexedFaces)
IndexDone(p) ==
  /\ sync[p].pc = "syncing"
  /\ sync[p].returned = Pending
  /\ \A k \in TrainKeys : sync[p].item[k] \in {"none", "done"}
  /\ sync' = [sync EXCEPT ![p].returned = sync[p].indexedFaces]
  /\ UNCHANGED <<bucket, collection, obs, checkVars, restVars>>

\* Faces.length - deletedFaces + indexedFaces, as JavaScript computes it
totalOf(Faces, deletedFaces, indexedFaces) ==
  IF deletedFaces = undefined THEN NaN
  ELSE Cardinality(Faces) - deletedFaces + indexedFaces

\* deleteFaces and indexFacesFromImages have both resolved: the pass logs its
\* totals and resolves (lines 224-229)
SyncDone(p) ==
  /\ sync[p].pc = "syncing"
  /\ sync[p].returned # Pending
  /\ sync[p].deletedFaces # Pending
  /\ sync' = [sync EXCEPT ![p].pc = "done",
                          ![p].total = totalOf(sync[p].currentFaces,
                                               sync[p].deletedFaces, sync[p].returned)]
  /\ obs' = [obs EXCEPT ![p].completed = @ + 1,
                        ![p].lastIndexed = sync[p].returned,
                        ![p].last = IF obs[p].swallowed THEN "swallowed" ELSE "clean"]
  /\ UNCHANGED <<bucket, collection, checkVars, restVars>>

\* the steps of a pass that has been started
SyncRun(p) ==
  \/ ListFacesReply(p)
  \/ ListObjectsReply(p)
  \/ ListFails(p)
  \/ SyncDiff(p)
  \/ DeleteFacesReply(p)
  \/ \E k \in TrainKeys :
       \/ MapStart(p, k)
       \/ \E n \in FaceCounts : IndexFacesRecords(p, k, n)
       \/ IndexFacesNoRecords(p, k)
       \/ IndexFacesError(p, k)
       \/ PurgeFacesReply(p, k)
       \/ PurgeObjectReply(p, k)
       \/ CatchDeleteObjectReply(p, k)
  \/ IndexDone(p)
  \/ SyncDone(p)

SyncStep(p) == SyncStart(p) \/ SyncRun(p)



\* ------------------------------------------------------------ photo records
BucketName == "get-me-a-date-bucket"
Photos == 1..NumPhotos
PhotoFile(ph) == "f" \o ToString(ph) \o ".jpg"

\* a parsed URL: its host and the segments of its path
RemoteUrl(ph) == [host |-> "images.example.com", path |-> <<"user1", PhotoFile(ph)>>]

\* https://s3-${AWS_REGION}.amazonaws.com/${bucket}/photos/${channelName}/${pathname}
S3Url(channelName, pathname) ==
  [host |-> "s3.amazonaws.com", path |-> <<BucketName, "photos", channelName>> \o pathname]

\* Similarity as Rekognition reports it, in thousandths of a percent; the
\* similarity of a photo record is kept in hundredths
RawSimilarities == {79996, 80004}

\* likePhotosThreshold, in hundredths of a percent
Thresholds == {-100, 0, 8000, 8400, 8500, 8600}

\* _.round(x, 2) of x thousandths, in hundredths (halves round up)
round2(x) == (x + 5) \div 10

RECURSIVE maxOf(_)
maxOf(S) ==
  LET x == CHOOSE y \in S : TRUE
  IN IF S = {x} THEN x
     ELSE LET m == maxOf(S \ {x}) IN IF x > m THEN x ELSE m

\* _.round(_.max(_.map(FaceMatches, 'Similarity')), 2) || 0
similarityOf(FaceMatches) ==
  IF FaceMatches = {} THEN 0 ELSE round2(maxOf(FaceMatches))

\* mutant: every photo is taken as not checked out
checkedOut_never(p) == FALSE

\* if (photo.similarity_date)
checkedOut(p) == p.similarity_date # null

\* mutant: only InvalidImageFormatException counts as a malformed image
IsInvalidCompareError_format(code) == code = "InvalidImageFormatException"

\* the error codes the .catch of compareFacesFromImage turns into similarity 0
IsInvalidCompareError(code) ==
  code \in {"InvalidImageFormatException", "InvalidParameterException"}

\* str.replace(sub, ''): the first occurrence of the segments sub is removed
RECURSIVE removeFirst(_, _)
removeFirst(path, sub) ==
  IF Len(path) < Len(sub) THEN path
  ELSE IF SubSeq(path, 1, Len(sub)) = sub THEN SubSeq(path, Len(sub) + 1, Len(path))
  ELSE <<Head(path)>> \o removeFirst(Tail(path), sub)

\* _.split(pathname, '/')[i - 1]: a segment that is not there is undefined,
\* which the concatenation turns into a string
segment(path, i) == IF i <= Len(path) THEN path[i] ELSE "undefined"

\* the pathname savePhoto derives from the URL (lines 103-106); prepend is the
\* rename option, "" without it
pathnameOf(channelName, url, prepend) ==
  LET pathname == removeFirst(removeFirst(url.path, <<"cache", "images">>),
                              <<BucketName, "photos", channelName>>)
  IN IF prepend = "" THEN pathname
     ELSE <<segment(pathname, 1), prepend \o segment(pathname, 2)>>

\* the key of the putObject of savePhoto (line 108)
photoKey(channelName, pathname) == <<"photos", channelName>> \o pathname

NoUrl == [host |-> "", path |-> <<>>]

NoCalls == [get |-> 0, put |-> 0, search |-> 0]

\* history: no step of a photo failed in the last step of the call
NoFailure == [task |-> 0, what |-> "none"]

IdleBatch ==
  [pc |-> "idle", photos |-> <<>>, task |-> <<>>, url |-> <<>>,
   faceSimilarities |-> <<>>, notCheckedOutPhotos |-> 0,
   faceSimilarityMax |-> undefined, faceSimilarityMin |-> undefined,
   faceSimilarityMean |-> 0, like |-> FALSE, error |-> "none",
   failure |-> NoFailure]

\* a photo record is fresh, or was checked out earlier
InitPhotos ==
  [Photos -> {"fresh", "zero", "match"}]

InitPhoto(ph, kind) ==
  IF kind = "fresh"
    THEN [url |-> RemoteUrl(ph), similarity |-> null, similarity_date |-> null]
    ELSE [url |-> S3Url(Channel, RemoteUrl(ph).path),
          similarity |-> IF kind = "zero" THEN 0 ELSE 8000,
          similarity_date |-> isoDate]

CheckStateInit ==
  /\ \E kinds \in InitPhotos : photo = [ph \in Photos |-> InitPhoto(ph, kinds[ph])]
  /\ settings \in {null, DefaultThreshold}
  /\ batch = [b \in Procs |-> IdleBatch]
  /\ issued = [ph \in Photos |-> NoCalls]

\* ------------------------------------------------------------ checkPhotosOut
SeqsUpTo(S, n) == UNION {[1..m -> S] : m \in 0..n}

\* the lists of photos a call may be given, one list for all its orderings (the
\* photos of a list are started in any order)
PhotoLists ==
  {ps \in SeqsUpTo(Photos, MaxBatch) : \A i \in 1..(Len(ps) - 1) : ps[i] <= ps[i + 1]}

tasksInFlight(b) ==
  {i \in 1..Len(batch[b].photos) : batch[b].task[i] \in {"get", "put", "search"}}

\* the call: the arguments are checked, the photos without similarity_date are
\* noted and the photos are handed to Promise.map
CheckPhotosOut(b, photos) ==
  /\ batch[b].pc \in {"idle", "resolved", "rejected"}
  /\ tasksInFlight(b) = {}
  /\ batch' = [batch EXCEPT ![b] =
       [IdleBatch EXCEPT
          !.pc = "mapping",
          !.photos = photos,
          !.task = [i \in 1..Len(photos) |-> "queued"],
          !.url = [i \in 1..Len(photos) |-> NoUrl],
          !.faceSimilarities = [i \in 1..Len(photos) |-> Pending],
          !.notCheckedOutPhotos =
             Cardinality({i \in 1..Len(photos) : ~checkedOut(photo[photos[i]])})]]
  /\ issued' = [ph \in Photos |-> NoCalls]
  /\ UNCHANGED <<photo, settings, bucket, syncState, restVars>>

\* the call without a channel name or without photos (lines 260-262)
CheckPhotosOutInvalid(b) ==
  /\ batch[b].pc \in {"idle", "resolved", "rejected"}
  /\ tasksInFlight(b) = {}
  /\ batch' = [batch EXCEPT ![b] =
       [IdleBatch EXCEPT !.pc = "rejected", !.error = "invalid arguments"]]
  /\ issued' = [ph \in Photos |-> NoCalls]
  /\ UNCHANGED <<photo, settings, bucket, syncState, restVars>>

\* history: what failed in the last step of the call, if anything did
Failed(bs, b, i, what) == [bs EXCEPT ![b].failure = [task |-> i, what |-> what]]

Passed(bs, b) == [bs EXCEPT ![b].failure = NoFailure]

Counted(ph, call) == [issued EXCEPT ![ph][call] = @ + 1]

\* checkPhotoOut (lines 68-76) is called for a photo of the batch: a checked out
\* photo gives its similarity at once, for any other savePhoto parses the URL
\* and issues the download
CheckPhotoOut(b, i) ==
  /\ batch[b].pc = "mapping"
  /\ i \in 1..Len(batch[b].photos)
  /\ batch[b].task[i] = "queued"
  /\ Cardinality(tasksInFlight(b)) < Concurrency
  /\ LET ph == batch[b].photos[i]
     IN IF checkedOut(photo[ph])
          THEN /\ batch' = Passed([batch EXCEPT ![b].task[i] = "done",
                                                ![b].faceSimilarities[i] = photo[ph].similarity], b)
               /\ issued' = issued
          ELSE /\ batch' = Passed([batch EXCEPT ![b].task[i] = "get",
                                                ![b].url[i] = photo[ph].url], b)
               /\ issued' = Counted(ph, "get")
  /\ UNCHANGED <<photo, settings, bucket, syncState, restVars>>

\* mutant: without the .catch the error reaches Promise.map, which rejects
Swallowed_rejects(b, i) ==
  [batch EXCEPT ![b].task[i] = "done", ![b].url[i] = NoUrl,
                ![b].pc = "rejected", ![b].error = "photo"]

\* the .catch of checkPhotoOut (line 75): the error is logged and the step gives
\* what Logger.warn gives
Swallowed(b, i) ==
  [batch EXCEPT ![b].task[i] = "done", ![b].url[i] = NoUrl,
                ![b].faceSimilarities[i] = undefined]

\* the download replies with status 200: putObject is issued
DownloadReply(b, i) ==
  /\ i \in 1..Len(batch[b].photos)
  /\ batch[b].task[i] = "get"
  /\ batch' = Passed([batch EXCEPT ![b].task[i] = "put"], b)
  /\ issued' = Counted(batch[b].photos[i], "put")
  /\ UNCHANGED <<photo, settings, bucket, syncState, restVars>>

\* the download fails, or replies with another status (line 90)
DownloadFails(b, i) ==
  /\ i \in 1..Len(batch[b].photos)
  /\ batch[b].task[i] = "get"
  /\ batch' = Failed(Swallowed(b, i), b, i, "download")
  /\ UNCHANGED <<photo, settings, bucket, issued, syncState, restVars>>

\* putObject replies: the photo gets its bucket URL and savePhoto resolves;
\* compareFacesFromImage issues searchFacesByImage
UploadReply(b, i) ==
  /\ i \in 1..Len(batch[b].photos)
  /\ batch[b].task[i] = "put"
  /\ LET ph == batch[b].photos[i]
         pathname == pathnameOf(Channel, batch[b].url[i], "")
     IN /\ bucket' = bucket \cup {photoKey(Channel, pathname)}
        /\ photo' = [photo EXCEPT ![ph].url = S3Url(Channel, pathname)]
        /\ issued' = Counted(ph, "search")
  /\ batch' = Passed([batch EXCEPT ![b].task[i] = "search", ![b].url[i] = NoUrl], b)
  /\ UNCHANGED <<settings, syncState, restVars>>

\* putObject fails
UploadFails(b, i) ==
  /\ i \in 1..Len(batch[b].photos)
  /\ batch[b].task[i] = "put"
  /\ batch' = Failed(Swallowed(b, i), b, i, "upload")
  /\ UNCHANGED <<photo, settings, bucket, issued, syncState, restVars>>

\* the photo record once its similarity is known (lines 120-121, 127-128)
compared(p, similarity, date) ==
  [p EXCEPT !.similarity = similarity, !.similarity_date = date]

\* searchFacesByImage replies with FaceMatches
SearchReply(b, i, FaceMatches) ==
  /\ i \in 1..Len(batch[b].photos)
  /\ batch[b].task[i] = "search"
  /\ LET ph == batch[b].photos[i]
         similarity == similarityOf(FaceMatches)
     IN /\ photo' = [photo EXCEPT ![ph] = compared(@, similarity, isoDate)]
        /\ batch' = Passed([batch EXCEPT ![b].task[i] = "done",
                                         ![b].faceSimilarities[i] = similarity], b)
  /\ UNCHANGED <<settings, bucket, issued, syncState, restVars>>

\* searchFacesByImage fails: a malformed image counts as similarity 0, any
\* other error is thrown on to the .catch of checkPhotoOut
SearchFails(b, i, code) ==
  /\ i \in 1..Len(batch[b].photos)
  /\ batch[b].task[i] = "search"
  /\ LET ph == batch[b].photos[i]
     IN IF IsInvalidCompareError(code)
          THEN /\ photo' = [photo EXCEPT ![ph] = compared(@, 0, isoDate)]
               /\ batch' = Failed([batch EXCEPT ![b].task[i] = "done",
                                                ![b].faceSimilarities[i] = 0], b, i, code)
          ELSE /\ photo' = photo
               /\ batch' = Failed(Swallowed(b, i), b, i, code)
  /\ UNCHANGED <<settings, bucket, issued, syncState, restVars>>

\* ---------------------------------------------------------------- aggregation
RECURSIVE sumOf(_)
sumOf(xs) == IF xs = <<>> THEN 0 ELSE Head(xs) + sumOf(Tail(xs))

IsNumber(x) == x # undefined

\* _.max(faceSimilarities): the entries that are undefined are passed over
maxSimilarity(xs) ==
  LET S == {xs[i] : i \in {j \in 1..Len(xs) : IsNumber(xs[j])}}
  IN IF S = {} THEN undefined ELSE maxOf(S)

\* _.min(faceSimilarities)
minSimilarity(xs) ==
  LET S == {xs[i] : i \in {j \in 1..Len(xs) : IsNumber(xs[j])}}
  IN IF S = {} THEN undefined ELSE CHOOSE x \in S : \A y \in S : x <= y

IsScore(x) == x \notin {0, undefined}

\* _.without(faceSimilarities, 0, undefined)
without(xs) == SelectSeq(xs, IsScore)

\* mutant: the mean of no score is not replaced by 0
meanOf_noDefault(xs) ==
  LET valid == without(xs)
  IN IF valid = <<>> THEN NaN
     ELSE (2 * sumOf(valid) + Len(valid)) \div (2 * Len(valid))

\* _.round(_.mean(_.without(faceSimilarities, 0, undefined)), 2) || 0, in
\* hundredths: halves round up, and the NaN of an empty list gives 0
meanOf(xs) ==
  LET valid == without(xs)
  IN IF valid = <<>> THEN 0
     ELSE (2 * sumOf(valid) + Len(valid)) \div (2 * Len(valid))

\* x > y as JavaScript compares numbers: a comparison with NaN is false
greater(x, y) == x # NaN /\ y # NaN /\ x > y

\* mutant: a mean equal to the threshold is liked
likeOf_atLeast(xs, mean, threshold) ==
  xs # <<>> /\ (greater(mean, threshold) \/ mean = threshold)

\* !_.isEmpty(faceSimilarities) && faceSimilarityMean > settings.likePhotosThreshold
likeOf(xs, mean, threshold) == xs # <<>> /\ greater(mean, threshold)

\* every photo has its result: max, min and mean are taken and the settings are
\* asked for (lines 268-273)
Aggregate(b) ==
  /\ batch[b].pc = "mapping"
  /\ \A i \in 1..Len(batch[b].photos) : batch[b].task[i] = "done"
  /\ LET xs == batch[b].faceSimilarities
     IN batch' = Passed([batch EXCEPT ![b].pc = "settings",
                                      ![b].faceSimilarityMax = maxSimilarity(xs),
                                      ![b].faceSimilarityMin = minSimilarity(xs),
                                      ![b].faceSimilarityMean = meanOf(xs)], b)
  /\ UNCHANGED <<photo, settings, bucket, issued, syncState, restVars>>

\* the result of checkPhotosOut, given the settings (lines 274-292)
Resolved(b, threshold) ==
  [batch EXCEPT ![b].pc = "resolved",
                ![b].like = likeOf(batch[b].faceSimilarities,
                                   batch[b].faceSimilarityMean, threshold)]

\* findOrCreateNewSettings finds the settings record
SettingsFound(b) ==
  /\ batch[b].pc = "settings"
  /\ settings # null
  /\ batch' = Resolved(b, settings)
  /\ UNCHANGED <<photo, settings, bucket, issued, syncState, restVars>>

\* findOrCreateNewSettings finds none and creates the record with its defaults
SettingsCreated(b) ==
  /\ batch[b].pc = "settings"
  /\ settings = null
  /\ settings' = DefaultThreshold
  /\ batch' = Resolved(b, DefaultThreshold)
  /\ UNCHANGED <<photo, bucket, issued, syncState, restVars>>

\* the database fails: checkPhotosOut rejects
SettingsFails(b) ==
  /\ batch[b].pc = "settings"
  /\ batch' = [batch EXCEPT ![b].pc = "rejected", ![b].error = "database"]
  /\ UNCHANGED <<photo, settings, bucket, issued, syncState, restVars>>

\* the steps of a call that was given at most n photos
CheckRun(b, n) ==
  \/ \E i \in 1..n :
       \/ CheckPhotoOut(b, i)
       \/ DownloadReply(b, i)
       \/ DownloadFails(b, i)
       \/ UploadReply(b, i)
       \/ UploadFails(b, i)
       \/ \E FaceMatches \in SUBSET RawSimilarities : SearchReply(b, i, FaceMatches)
       \/ \E code \in RekognitionErrors : SearchFails(b, i, code)
  \/ Aggregate(b)
  \/ SettingsFound(b)
  \/ SettingsCreated(b)
  \/ SettingsFails(b)

CheckStep(b) ==
  \/ \E photos \in PhotoLists : CheckPhotosOut(b, photos)
  \/ CheckPhotosOutInvalid(b)
  \/ CheckRun(b, MaxBatch)

\* -------------------------------------------------------------- provisioning
\* a collection id or a bucket name: what it starts with, and the rest
Prefix == "get-me-a-date-"
NoName == <<"", "">>
ConfiguredName == <<"my-", "taste">>
\* `get-me-a-date-${_.now()}-${_.random(9)}`
MintedName == <<Prefix, "now-r">>
ExistingNames == {<<Prefix, "a">>, <<Prefix, "b">>, ConfiguredName}

\* _.startsWith(name, 'get-me-a-date-')
startsWith(name, prefix) == name[1] = prefix

\* _.includes(list, name)
includes(list, name) == \E i \in 1..Len(list) : list[i] = name

\* _.find(list, (name) => _.startsWith(name, 'get-me-a-date-')): the first one,
\* NoName (undefined) when there is none
find(list) ==
  LET found == {i \in 1..Len(list) : startsWith(list[i], Prefix)}
  IN IF found = {} THEN NoName
     ELSE list[CHOOSE i \in found : \A j \in found : i <= j]

\* this._x = this._x || _.find(...) || `get-me-a-date-...` (lines 168-170, 182-184)
resolvedName(name, list) ==
  IF name # NoName THEN name
  ELSE IF find(list) # NoName THEN find(list)
  ELSE MintedName

\* mutant: the resource is created whether it is listed or not
needsCreate_always(name, list) == TRUE

\* !_.includes(list, name) (lines 172, 186)
needsCreate(name, list) == ~includes(list, name)

\* createRekognitionCollectionIfNeeded and createS3BucketIfNeeded
Resources == {"collection", "bucket"}

\* the listings the two services may give: names that are all different
Listings ==
  {l \in SeqsUpTo(ExistingNames, 2) : \A i, j \in 1..Len(l) : i # j => l[i] # l[j]}

IdleBoot ==
  [pc |-> "idle", error |-> "none",
   calls |-> [r \in Resources |-> 0],
   step |-> [r \in Resources |-> "none"],
   name |-> [r \in Resources |-> NoName],
   existing |-> [r \in Resources |-> <<>>],
   created |-> [r \in Resources |-> 0],
   settled |-> [r \in Resources |-> NoName]]

\* the constructor takes the two names from the environment, where each may
\* be unset (lines 139-140)
BootInit(lists) ==
  \E names \in [Resources -> {NoName, ConfiguredName}], existing \in [Resources -> lists] :
    boot = [IdleBoot EXCEPT !.name = names, !.existing = existing]

\* no call of the provisioning of r is under way
settled(b, r) == b.step[r] \in {"none", "done", "failed"}

\* createRekognitionCollectionIfNeeded() / createS3BucketIfNeeded() is called
\* and issues its listing
called(b, r) ==
  [b EXCEPT !.calls[r] = @ + 1, !.step[r] = "list", !.created[r] = 0]

\* one of the two is called on its own
Provision(r) ==
  /\ boot.pc = "idle"
  /\ settled(boot, r)
  /\ boot.calls[r] < MaxStarts
  /\ boot' = called(boot, r)
  /\ UNCHANGED <<bucket, syncState, checkVars, snap, acq, inbox>>

\* start(): both provisioning calls are made
Start ==
  /\ boot.pc \in {"idle", "resolved", "rejected"}
  /\ \A r \in Resources : settled(boot, r) /\ boot.calls[r] < MaxStarts
  /\ boot' = [called(called(boot, "collection"), "bucket") EXCEPT
               !.pc = "provisioning", !.error = "none"]
  /\ UNCHANGED <<bucket, syncState, checkVars, snap, acq, inbox>>

\* Promise.all rejects with the first error, and so does start()
rejected(b, what) ==
  IF b.pc = "provisioning" THEN [b EXCEPT !.pc = "rejected", !.error = what] ELSE b

\* listCollections / listBuckets replies: the name is resolved and kept, and
\* the resource is created if the listing does not have it
ListNamesReply(r) ==
  /\ boot.step[r] = "list"
  /\ LET name == resolvedName(boot.name[r], boot.existing[r])
     IN boot' = [boot EXCEPT
                   !.name[r] = name,
                   !.step[r] = IF needsCreate(name, boot.existing[r]) THEN "create" ELSE "done",
                   !.created[r] = IF needsCreate(name, boot.existing[r]) THEN @ + 1 ELSE @,
                   !.settled[r] = IF needsCreate(name, boot.existing[r]) THEN @ ELSE name]
  /\ UNCHANGED <<bucket, syncState, checkVars, snap, acq, inbox>>

\* the listing fails
ListNamesFails(r) ==
  /\ boot.step[r] = "list"
  /\ boot' = [rejected(boot, "list " \o r) EXCEPT !.step[r] = "failed"]
  /\ UNCHANGED <<bucket, syncState, checkVars, snap, acq, inbox>>

\* createCollection / createBucket replies: the resource exists
CreateReply(r) ==
  /\ boot.step[r] = "create"
  /\ boot' = [boot EXCEPT !.step[r] = "done",
                          !.existing[r] = Append(@, boot.name[r]),
                          !.settled[r] = boot.name[r]]
  /\ UNCHANGED <<bucket, syncState, checkVars, snap, acq, inbox>>

\* the create call fails
CreateFails(r) ==
  /\ boot.step[r] = "create"
  /\ boot' = [rejected(boot, "create " \o r) EXCEPT !.step[r] = "failed"]
  /\ UNCHANGED <<bucket, syncState, checkVars, snap, acq, inbox>>

\* mutant: the pass is started as soon as one of the two is provisioned
provisioned_either(b) == \E r \in Resources : b.step[r] = "done"

\* Promise.all([...]) has resolved
provisioned(b) == \A r \in Resources : b.step[r] = "done"

\* .then(() => this.syncS3BucketAndRekognitionCollection()) (line 162)
StartSync ==
  /\ boot.pc = "provisioning"
  /\ provisioned(boot)
  /\ Begin(1)
  /\ boot' = [boot EXCEPT !.pc = "syncing"]
  /\ UNCHANGED <<bucket, collection, checkVars, snap, acq, inbox>>

\* the pass has resolved or failed, and with it start()
StartSettled ==
  /\ boot.pc = "syncing"
  /\ sync[1].pc \in {"done", "failed"}
  /\ boot' = [boot EXCEPT !.pc = IF sync[1].pc = "done" THEN "resolved" ELSE "rejected",
                          !.error = IF sync[1].pc = "done" THEN "none" ELSE "sync"]
  /\ UNCHANGED <<bucket, syncState, checkVars, snap, acq, inbox>>

ProvisionStep(r) ==
  \/ ListNamesReply(r)
  \/ ListNamesFails(r)
  \/ CreateReply(r)
  \/ CreateFails(r)

BootStep ==
  \/ Start
  \/ \E r \in Resources : ProvisionStep(r)
  \/ StartSync
  \/ StartSettled

\* --------------------------------------------------------------- mentalSnapshot
\* _.clone(photo): a new object, which is no photo record
clone(ph) == 0

\* history: the photo record as the call was given it
NoPhoto == [url |-> NoUrl, similarity |-> null, similarity_date |-> null]

IdleSnapshot ==
  [pc |-> "idle", photo |-> 0, thumbnail |-> 0, url |-> NoUrl, before |-> NoPhoto,
   value |-> NoUrl, error |-> "none"]

\* the URLs a photo that was not checked out may have: one, two or three
\* directories and file names after the host, or a cache path
RemoteUrls(ph) ==
  {[host |-> "images.example.com", path |-> path] :
     path \in {<<PhotoFile(ph)>>, <<"user1", PhotoFile(ph)>>,
               <<"user1", "album", PhotoFile(ph)>>,
               <<"cache", "images", "user1", PhotoFile(ph)>>}}

SnapshotPhotos(ph) ==
  {[InitPhoto(ph, "fresh") EXCEPT !.url = u] : u \in RemoteUrls(ph)} \cup
  {InitPhoto(ph, "match")}

\* mentalSnapshot(channelName, photo): the arguments are there, the photo is
\* cloned and savePhoto issues the download of the clone's URL
MentalSnapshot(ph) ==
  /\ snap.pc \in {"idle", "resolved", "rejected"}
  /\ snap' = [IdleSnapshot EXCEPT !.pc = "get", !.photo = ph, !.thumbnail = clone(ph),
                                  !.url = photo[ph].url, !.before = photo[ph]]
  /\ issued' = [q \in Photos |-> IF q = ph THEN [NoCalls EXCEPT !.get = 1] ELSE NoCalls]
  /\ UNCHANGED <<photo, settings, batch, bucket, syncState, boot, acq, inbox>>

\* the call without a channel name or without a photo (lines 234-236)
MentalSnapshotInvalid ==
  /\ snap.pc \in {"idle", "resolved", "rejected"}
  /\ snap' = [IdleSnapshot EXCEPT !.pc = "rejected", !.error = "invalid arguments"]
  /\ issued' = [q \in Photos |-> NoCalls]
  /\ UNCHANGED <<photo, settings, batch, bucket, syncState, boot, acq, inbox>>

\* the download replies with status 200 and the body is resized: putObject is
\* issued
SnapshotDownloadReply ==
  /\ snap.pc = "get"
  /\ snap' = [snap EXCEPT !.pc = "put"]
  /\ issued' = [issued EXCEPT ![snap.photo].put = @ + 1]
  /\ UNCHANGED <<photo, settings, batch, bucket, syncState, boot, acq, inbox>>

\* the download fails or replies with another status, or the resize fails
SnapshotDownloadFails ==
  /\ snap.pc = "get"
  /\ snap' = [snap EXCEPT !.pc = "rejected", !.error = "download"]
  /\ UNCHANGED <<checkVars, bucket, syncState, boot, acq, inbox>>

\* putObject replies: the thumbnail gets its bucket URL (line 110), which the
\* call resolves with (line 245)
SnapshotUploadReply ==
  /\ snap.pc = "put"
  /\ LET pathname == pathnameOf(Channel, snap.url, "84x84_")
     IN /\ bucket' = bucket \cup {photoKey(Channel, pathname)}
        /\ snap' = [snap EXCEPT !.pc = "resolved", !.url = S3Url(Channel, pathname),
                                !.value = S3Url(Channel, pathname)]
        /\ photo' = IF snap.thumbnail \in Photos
                      THEN [photo EXCEPT ![snap.thumbnail].url = S3Url(Channel, pathname)]
                      ELSE photo
  /\ UNCHANGED <<settings, batch, issued, syncState, boot, acq, inbox>>

\* putObject fails
SnapshotUploadFails ==
  /\ snap.pc = "put"
  /\ snap' = [snap EXCEPT !.pc = "rejected", !.error = "upload"]
  /\ UNCHANGED <<checkVars, bucket, syncState, boot, acq, inbox>>

SnapshotStep ==
  \/ \E ph \in Photos : MentalSnapshot(ph)
  \/ MentalSnapshotInvalid
  \/ SnapshotDownloadReply
  \/ SnapshotDownloadFails
  \/ SnapshotUploadReply
  \/ SnapshotUploadFails

\* ----------------------------------------------------------------- acquireTaste
\* no key: the undefined a skipped photo leaves in the list of images
NoKey == <<>>

IdleAcquire ==
  [pc |-> "idle", photos |-> <<>>, copy |-> <<>>, srcKey |-> <<>>, dstKey |-> <<>>,
   images |-> <<>>, item |-> <<>>, FaceRecords |-> <<>>, indexedFaces |-> 0,
   deleteObject |-> {}, error |-> "none"]

\* the photos acquireTaste may be given: checked out and stored in the bucket,
\* not stored, or with a URL that parse() gives nothing for
AcquirePhotos(ph) ==
  {InitPhoto(ph, "match"), InitPhoto(ph, "fresh"),
   [InitPhoto(ph, "fresh") EXCEPT !.url = NoUrl]}

\* parse(photo.url) gave a URL
parsed(url) == url # NoUrl

\* mutant: the key is copied onto itself
dstKeyOf_same(srcKey) == srcKey

\* srcKey.replace(`/${this._s3Bucket}/photos`, 'train')
dstKeyOf(srcKey) ==
  IF Len(srcKey) >= 2 /\ SubSeq(srcKey, 1, 2) = <<BucketName, "photos">>
    THEN <<"train">> \o SubSeq(srcKey, 3, Len(srcKey))
    ELSE srcKey

\* the object a copy reads: the key under the bucket's name, if the path
\* names this bucket
sourceOf(srcKey) ==
  IF srcKey # <<>> /\ Head(srcKey) = BucketName THEN Tail(srcKey) ELSE NoKey

copiesInFlight == {i \in 1..Len(acq.photos) : acq.copy[i] = "copy"}

acquireInFlight == {i \in 1..Len(acq.photos) : acq.item[i] \in InFlightStates}

\* acquireTaste(photos): the photos are handed to Promise.map
AcquireTaste(photos) ==
  /\ acq.pc \in {"idle", "resolved", "rejected"}
  /\ copiesInFlight = {} /\ acquireInFlight = {}
  /\ acq' = [IdleAcquire EXCEPT
               !.pc = "copying", !.photos = photos,
               !.copy = [i \in 1..Len(photos) |-> "queued"],
               !.srcKey = [i \in 1..Len(photos) |-> NoKey],
               !.dstKey = [i \in 1..Len(photos) |-> NoKey],
               !.images = [i \in 1..Len(photos) |-> NoKey],
               !.item = [i \in 1..Len(photos) |-> "none"],
               !.FaceRecords = [i \in 1..Len(photos) |-> {}]]
  /\ UNCHANGED <<bucket, syncState, checkVars, boot, snap, inbox>>

\* Promise.map starts the mapper of a photo: a photo without a parsed URL is
\* skipped and gives undefined, for any other one copyObject is issued
CopyStart(i) ==
  /\ acq.pc = "copying"
  /\ i \in 1..Len(acq.photos)
  /\ acq.copy[i] = "queued"
  /\ Cardinality(copiesInFlight) < Concurrency
  /\ LET url == photo[acq.photos[i]].url
     IN acq' = IF parsed(url)
                 THEN [acq EXCEPT !.copy[i] = "copy", !.srcKey[i] = url.path,
                                  !.dstKey[i] = dstKeyOf(url.path)]
                 ELSE [acq EXCEPT !.copy[i] = "skipped"]
  /\ UNCHANGED <<bucket, syncState, checkVars, boot, snap, inbox>>

\* copyObject replies: the mapper gives the destination key
CopyReply(i) ==
  /\ i \in 1..Len(acq.photos)
  /\ acq.copy[i] = "copy"
  /\ sourceOf(acq.srcKey[i]) \in bucket
  /\ bucket' = bucket \cup {acq.dstKey[i]}
  /\ acq' = [acq EXCEPT !.copy[i] = "done", !.images[i] = acq.dstKey[i]]
  /\ UNCHANGED <<syncState, checkVars, boot, snap, inbox>>

\* copyObject fails, as it does when the source is not in the bucket:
\* Promise.map rejects and so does acquireTaste
CopyFails(i) ==
  /\ i \in 1..Len(acq.photos)
  /\ acq.copy[i] = "copy"
  /\ acq' = [acq EXCEPT !.copy[i] = "failed",
                        !.pc = IF @ = "copying" THEN "rejected" ELSE @,
                        !.error = IF acq.pc = "copying" THEN "copy" ELSE @]
  /\ UNCHANGED <<bucket, syncState, checkVars, boot, snap, inbox>>

\* every mapper has finished: .then((images) => indexFacesFromImages(images))
AcquireCopied ==
  /\ acq.pc = "copying"
  /\ \A i \in 1..Len(acq.photos) : acq.copy[i] \in {"done", "skipped"}
  /\ acq' = [acq EXCEPT !.pc = "indexing",
                        !.item = [i \in 1..Len(acq.photos) |-> "queued"]]
  /\ UNCHANGED <<bucket, syncState, checkVars, boot, snap, inbox>>

\* Promise.map starts the mapper of an image: indexFaces is issued
AcquireMapStart(i) ==
  /\ acq.pc = "indexing"
  /\ i \in 1..Len(acq.photos)
  /\ acq.item[i] = "queued"
  /\ Cardinality(acquireInFlight) < Concurrency
  /\ acq' = [acq EXCEPT !.item[i] = "indexFaces"]
  /\ UNCHANGED <<bucket, syncState, checkVars, boot, snap, inbox>>

\* indexFaces replies with n face records, which the collection now holds
AcquireIndexFacesRecords(i, n) ==
  /\ i \in 1..Len(acq.photos)
  /\ acq.item[i] = "indexFaces"
  /\ acq.images[i] \in bucket
  /\ LET ids == FaceIds(acq.images[i], i, n)
     IN /\ collection' = collection \cup {Face(id, acq.images[i]) : id \in ids}
        /\ acq' = IF IsUnusable(n)
                    THEN [acq EXCEPT !.item[i] = "deleteFaces",
                                     !.FaceRecords[i] = FaceRecordsOf(ids)]
                    ELSE [acq EXCEPT !.item[i] = "done",
                                     !.FaceRecords[i] = FaceRecordsOf(ids),
                                     !.indexedFaces = @ + 1]
  /\ UNCHANGED <<bucket, sync, obs, checkVars, boot, snap, inbox>>

\* indexFaces replies without FaceRecords: the mapper returns (lines 43-45)
AcquireIndexFacesNoRecords(i) ==
  /\ i \in 1..Len(acq.photos)
  /\ acq.item[i] = "indexFaces"
  /\ acq.images[i] \in bucket
  /\ acq' = [acq EXCEPT !.item[i] = "done"]
  /\ UNCHANGED <<bucket, syncState, checkVars, boot, snap, inbox>>

\* what the mapper goes on with after an error: the .catch (lines 57-63)
caught(i, code) ==
  [acq EXCEPT !.item[i] = catchIndexError(code),
              !.deleteObject = IF IsInvalidImageError(code) THEN @ \cup {i} ELSE @]

\* indexFaces fails; for the undefined of a skipped photo it cannot but fail,
\* with the service's code or with the client's
AcquireIndexFacesError(i) ==
  /\ i \in 1..Len(acq.photos)
  /\ acq.item[i] = "indexFaces"
  /\ \E code \in (IF acq.images[i] = NoKey
                    THEN {"InvalidParameterException", "MissingRequiredParameter"}
                    ELSE RekognitionErrors) :
       acq' = caught(i, code)
  /\ UNCHANGED <<bucket, syncState, checkVars, boot, snap, inbox>>

\* the deleteFaces of an unusable image (line 49) replies
AcquirePurgeFacesReply(i) ==
  /\ i \in 1..Len(acq.photos)
  /\ acq.item[i] = "deleteFaces"
  /\ \/ /\ collection' = {f \in collection : f.FaceId \notin faceIdsOf(acq.FaceRecords[i])}
        /\ acq' = [acq EXCEPT !.item[i] = "deleteObject", !.deleteObject = @ \cup {i}]
     \/ /\ collection' = collection
        /\ \E code \in RekognitionErrors : acq' = caught(i, code)
  /\ UNCHANGED <<bucket, sync, obs, checkVars, boot, snap, inbox>>

\* the deleteObject of the image replies, that of line 51 or that of the
\* .catch (line 59), whose failure rejects Promise.map and acquireTaste
AcquireDeleteObjectReply(i) ==
  /\ i \in 1..Len(acq.photos)
  /\ acq.item[i] \in {"deleteObject", "catchDeleteObject"}
  /\ \/ /\ bucket' = bucket \ {acq.images[i]}
        /\ acq' = [acq EXCEPT !.item[i] = "done"]
     \/ /\ bucket' = bucket
        /\ acq' = IF acq.item[i] = "deleteObject" \/ acq.pc # "indexing"
                    THEN [acq EXCEPT !.item[i] = "done"]
                    ELSE [acq EXCEPT !.item[i] = "done", !.pc = "rejected",
                                     !.error = "deleteObject"]
  /\ UNCHANGED <<syncState, checkVars, boot, snap, inbox>>

\* every mapper has finished: the count is logged and acquireTaste resolves
AcquireResolved ==
  /\ acq.pc = "indexing"
  /\ \A i \in 1..Len(acq.photos) : acq.item[i] = "done"
  /\ acq' = [acq EXCEPT !.pc = "resolved"]
  /\ UNCHANGED <<bucket, syncState, checkVars, boot, snap, inbox>>

AcquireRun ==
  \/ \E i \in 1..(Concurrency + MaxBatch) :
       \/ CopyStart(i)
       \/ CopyReply(i)
       \/ CopyFails(i)
       \/ AcquireMapStart(i)
       \/ \E n \in FaceCounts : AcquireIndexFacesRecords(i, n)
       \/ AcquireIndexFacesNoRecords(i)
       \/ AcquireIndexFacesError(i)
       \/ AcquirePurgeFacesReply(i)
       \/ AcquireDeleteObjectReply(i)
  \/ AcquireCopied
  \/ AcquireResolved

\* ----------------------------------------------------------------- readMessages
\* a message is known by its channelName and channelMessageId
Messages == {<<Channel, id>> : id \in 1..NumMessages}

IdleInbox == [pc |-> "idle", messages |-> <<>>, upsert |-> <<>>, table |-> {}]

\* mutant: the upserts are issued without waiting for one another
mayIssue_any(i) == TRUE

\* Promise.mapSeries calls the mapper of an item when that of every item
\* before it has resolved
mayIssue(i) == \A j \in 1..(i - 1) : inbox.upsert[j] = "done"

\* readMessages(messages): the messages are handed to Promise.mapSeries
ReadMessages(messages) ==
  /\ inbox.pc \in {"idle", "resolved", "rejected"}
  /\ \A i \in 1..Len(inbox.messages) : inbox.upsert[i] # "upsert"
  /\ inbox' = [inbox EXCEPT !.pc = "running", !.messages = messages,
                            !.upsert = [i \in 1..Len(messages) |-> "queued"]]
  /\ UNCHANGED <<bucket, syncState, checkVars, boot, snap, acq>>

\* the mapper of message i is called: Database.messages.upsert is issued
UpsertStart(i) ==
  /\ inbox.pc = "running"
  /\ i \in 1..Len(inbox.messages)
  /\ inbox.upsert[i] = "queued"
  /\ mayIssue(i)
  /\ inbox' = [inbox EXCEPT !.upsert[i] = "upsert"]
  /\ UNCHANGED <<bucket, syncState, checkVars, boot, snap, acq>>

\* the upsert replies: the row of the message is there; or it fails, and
\* Promise.mapSeries rejects and so does readMessages
UpsertReply(i) ==
  /\ i \in 1..Len(inbox.messages)
  /\ inbox.upsert[i] = "upsert"
  /\ \/ inbox' = [inbox EXCEPT !.upsert[i] = "done",
                               !.table = @ \cup {inbox.messages[i]}]
     \/ inbox' = [inbox EXCEPT !.upsert[i] = "failed",
                               !.pc = IF @ = "running" THEN "rejected" ELSE @]
  /\ UNCHANGED <<bucket, syncState, checkVars, boot, snap, acq>>

\* the mapper of every message has resolved, and so does readMessages
ReadResolved ==
  /\ inbox.pc = "running"
  /\ \A i \in 1..Len(inbox.messages) : inbox.upsert[i] = "done"
  /\ inbox' = [inbox EXCEPT !.pc = "resolved"]
  /\ UNCHANGED <<bucket, syncState, checkVars, boot, snap, acq>>


\* ------------------------------------------------------------- specifications
RestIdle ==
  /\ boot = IdleBoot
  /\ snap = IdleSnapshot
  /\ acq = IdleAcquire
  /\ inbox = IdleInbox

SyncIdle ==
  /\ collection = {}
  /\ sync = [p \in Procs |-> IdlePass]
  /\ obs = [p \in Procs |-> NoObs]

CheckIdle ==
  /\ photo = [ph \in Photos |-> InitPhoto(ph, "fresh")]
  /\ settings = null
  /\ batch = [b \in Procs |-> IdleBatch]
  /\ issued = [ph \in Photos |-> NoCalls]

\* the sync passes of one caller, which follow one another
SyncInit == SyncStateInit /\ CheckIdle /\ RestIdle

SyncNext == SyncStep(1)

SyncSpec == SyncInit /\ [][SyncNext]_vars

\* two callers run one pass each, at the same time: the bucket holds one
\* training image, and the collection at most one face record, of an image
\* that is gone
ConcurrentSyncInit ==
  /\ bucket = {<<"train", Channel, "f1.jpg">>}
  /\ collection \in {c \in InitCollections : Cardinality(c) <= 1 /\ \A k \in bucket : recordsOf(c, k) = {}}
  /\ sync = [p \in Procs |-> IdlePass]
  /\ obs = [p \in Procs |-> NoObs]
  /\ CheckIdle
  /\ RestIdle

ConcurrentSyncNext ==
  \E p \in Procs :
    \/ obs[p].started = 0 /\ SyncStart(p)
    \/ SyncRun(p)

ConcurrentSyncSpec == ConcurrentSyncInit /\ [][ConcurrentSyncNext]_vars

\* the mentalSnapshot calls of one caller, which follow one another
SnapshotInit ==
  /\ photo \in [Photos -> UNION {SnapshotPhotos(ph) : ph \in Photos}]
  /\ \A ph \in Photos : photo[ph] \in SnapshotPhotos(ph)
  /\ bucket = {photoKey(Channel, RemoteUrl(ph).path) : ph \in {q \in Photos : checkedOut(photo[q])}}
  /\ settings = null
  /\ batch = [b \in Procs |-> IdleBatch]
  /\ issued = [ph \in Photos |-> NoCalls]
  /\ SyncIdle
  /\ RestIdle

SnapshotSpec == SnapshotInit /\ [][SnapshotStep]_vars

\* one acquireTaste call
AcquireInit ==
  /\ photo \in [Photos -> UNION {AcquirePhotos(ph) : ph \in Photos}]
  /\ \A ph \in Photos : photo[ph] \in AcquirePhotos(ph)
  /\ bucket = {photoKey(Channel, RemoteUrl(ph).path) : ph \in {q \in Photos : checkedOut(photo[q])}}
  /\ settings = null
  /\ batch = [b \in Procs |-> IdleBatch]
  /\ issued = [ph \in Photos |-> NoCalls]
  /\ SyncIdle
  /\ RestIdle

AcquireNext ==
  \/ \E photos \in PhotoLists : acq.pc = "idle" /\ AcquireTaste(photos)
  \/ AcquireRun

AcquireSpec == AcquireInit /\ [][AcquireNext]_vars

\* the readMessages calls of one caller, which follow one another; the table
\* is empty at first
MessageInit ==
  /\ inbox = IdleInbox
  /\ bucket = {}
  /\ SyncIdle
  /\ CheckIdle
  /\ boot = IdleBoot /\ snap = IdleSnapshot /\ acq = IdleAcquire

MessageNext ==
  \/ \E messages \in SeqsUpTo(Messages, MaxSeries) : ReadMessages(messages)
  \/ \E i \in 1..MaxSeries : UpsertStart(i) \/ UpsertReply(i)
  \/ ReadResolved

MessageSpec == MessageInit /\ [][MessageNext]_vars

\* one call, of checkPhotosOut or of acquireTaste, with one photo more than
\* the mappers that may run together; the photos are all fresh or all stored
CapInit ==
  /\ \E kind \in {"fresh", "match"} : photo = [ph \in Photos |-> InitPhoto(ph, kind)]
  /\ bucket = {photoKey(Channel, RemoteUrl(ph).path) : ph \in {q \in Photos : checkedOut(photo[q])}}
  /\ settings \in {null, DefaultThreshold}
  /\ batch = [b \in Procs |-> IdleBatch]
  /\ issued = [ph \in Photos |-> NoCalls]
  /\ SyncIdle
  /\ RestIdle

CapNext ==
  \/ \E photos \in [1..(Concurrency + 1) -> Photos] :
       /\ batch[1].pc = "idle" /\ acq.pc = "idle"
       /\ \A i \in 1..Concurrency : photos[i] <= photos[i + 1]
       /\ CheckPhotosOut(1, photos) \/ AcquireTaste(photos)
  \/ CheckRun(1, Concurrency + 1)
  \/ AcquireRun

CapSpec == CapInit /\ [][CapNext]_vars

\* the checkPhotosOut calls of one caller, which follow one another
CheckOutInit ==
  /\ CheckStateInit
  /\ SyncIdle
  /\ RestIdle
  /\ bucket = {photoKey(Channel, RemoteUrl(ph).path) : ph \in {q \in Photos : checkedOut(photo[q])}}

CheckOutNext == CheckStep(1)

CheckOutSpec == CheckOutInit /\ [][CheckOutNext]_vars

\* the two provisioning methods are called on their own, and called again
ProvisionInit ==
  /\ BootInit(Listings)
  /\ bucket = {}
  /\ SyncIdle
  /\ CheckIdle
  /\ snap = IdleSnapshot
  /\ acq = IdleAcquire
  /\ inbox = IdleInbox

ProvisionNext == \E r \in Resources : Provision(r) \/ ProvisionStep(r)

ProvisionSpec == ProvisionInit /\ [][ProvisionNext]_vars

\* start() is called, and called again: the bucket holds one training image,
\* the collection is empty, and at most the configured names exist
StartInit ==
  /\ BootInit({<<>>, <<ConfiguredName>>})
  /\ \E k \in TrainKeys : bucket = {k}
  /\ SyncIdle
  /\ CheckIdle
  /\ snap = IdleSnapshot
  /\ acq = IdleAcquire
  /\ inbox = IdleInbox

StartNext == BootStep \/ SyncRun(1)

StartSpec == StartInit /\ [][StartNext]_vars

\* the per-photo results the aggregation may be handed
ResultValues == {undefined, 0, 8000, 8001, 9000}

\* the aggregation of checkPhotosOut, on every list of per-photo results
AggregateInit ==
  /\ SyncIdle
  /\ RestIdle
  /\ bucket = {}
  /\ photo = [ph \in Photos |-> InitPhoto(ph, "fresh")]
  /\ settings \in Thresholds \cup {null}
  /\ issued = [ph \in Photos |-> NoCalls]
  /\ \E xs \in SeqsUpTo(ResultValues, MaxResults) :
       batch = [b \in Procs |->
                  IF b = 1
                    THEN [IdleBatch EXCEPT !.pc = "mapping",
                                           !.photos = [i \in 1..Len(xs) |-> 1],
                                           !.task = [i \in 1..Len(xs) |-> "done"],
                                           !.url = [i \in 1..Len(xs) |-> NoUrl],
                                           !.faceSimilarities = xs]
                    ELSE IdleBatch]

AggregateNext ==
  \/ Aggregate(1)
  \/ SettingsFound(1)
  \/ SettingsCreated(1)
  \/ SettingsFails(1)

AggregateSpec == AggregateInit /\ [][AggregateNext]_vars

\* ---------------------------------------------------- properties of the sync

\* the images of the pass for which indexFaces returned exactly one face record
oneFace(p) ==
  {k \in TrainKeys : obs[p].reply[k] = "records" /\ Cardinality(sync[p].FaceRecords[k]) = 1}

\* the images of the pass for which indexFaces returned no or several face records
unusable(p) ==
  {k \in TrainKeys : obs[p].reply[k] = "records" /\ Cardinality(sync[p].FaceRecords[k]) # 1}

bothEmpty(p) == sync[p].imagesToDelete = {} /\ sync[p].imagesToIndex = {}

converged(p) ==
  /\ listObjects("train") = currentImages(collection)
  /\ \A k \in oneFace(p) : k \in currentImages(collection)
  /\ \A k \in unusable(p) : k \notin bucket /\ k \notin currentImages(collection)

C3_SingleFace ==
  \A p \in Procs :
    sync[p].pc = "done" =>
      \A k \in currentImages(collection) : Cardinality(recordsOf(collection, k)) = 1

\* C3, amended: after a pass, an image the pass indexed with a one-face result
\* has exactly one face record, and an ExternalImageId has several face records
\* only if it had several before the pass, or indexFaces returned several for it
\* and the deleteFaces that followed failed
C3_SingleFaceUnlessInherited ==
  \A p \in Procs :
    sync[p].pc = "done" =>
      /\ \A k \in oneFace(p) : Cardinality(recordsOf(collection, k)) = 1
      /\ \A k \in TrainKeys :
           Cardinality(recordsOf(collection, k)) > 1 =>
             \/ Cardinality(recordsOf(obs[p].before, k)) > 1
             \/ k \in unusable(p) /\ obs[p].deleteFacesFailed[k]

\* a pass has completed that indexed one image with one face and purged the
\* records of an image with several
C3_Witness ==
  /\ sync[1].pc = "done"
  /\ \E k \in oneFace(1) : Cardinality(recordsOf(collection, k)) = 1
  /\ \E k \in unusable(1) :
       Cardinality(sync[1].FaceRecords[k]) > 1 /\ recordsOf(collection, k) = {}

detectedIds(p, k) == {r.Face.FaceId : r \in sync[p].FaceRecords[k]}

remaining(p, k) == {f \in collection : f.FaceId \in detectedIds(p, k)}

InvalidImageCodes == {"InvalidImageFormatException", "InvalidParameterException"}

tasks(b) == DOMAIN batch[b].task

photoOf(b, i) == batch[b].photos[i]

\* checkPhotoOut is called in this step for photo i of the batch
Called(b, i) ==
  /\ batch[b].pc = "mapping"
  /\ i \in tasks(b)
  /\ batch[b].task[i] = "queued"
  /\ batch'[b].task[i] # "queued"

\* the step of photo i fails in this step
Fails(b, i) ==
  /\ i \in tasks(b)
  /\ batch[b].pc = "mapping"
  /\ batch[b].task[i] # "done"
  /\ batch'[b].failure.task = i

\* no step of a photo has failed in the call so far: a failed step is done
\* without a similarity, or with similarity 0
NoneFailed(b) ==
  \A i \in tasks(b) : batch[b].task[i] = "done" => batch[b].faceSimilarities[i] > 0

\* the call is not rejected because of a photo
NotRejectedByPhoto(b) ==
  batch[b].pc = "rejected" => batch[b].error \in {"invalid arguments", "database"}

\* a call of checkPhotoOut for a photo with similarity_date issues nothing,
\* returns the similarity of the photo and leaves the photo as it is
ShortCircuits(b, i) ==
  (Called(b, i) /\ photo[photoOf(b, i)].similarity_date # null) =>
    /\ issued' = issued
    /\ bucket' = bucket
    /\ photo' = photo
    /\ batch'[b].task[i] = "done"
    /\ batch'[b].faceSimilarities[i] = photo[photoOf(b, i)].similarity

\* C4: checkPhotoOut for a photo whose similarity_date is set issues no
\* download, no putObject and no searchFacesByImage, returns the similarity of
\* the photo and leaves its url, similarity and similarity_date unchanged
C4_CheckedOutMemoized == [][\A i \in 1..MaxBatch : ShortCircuits(1, i)]_vars

\* a checked out photo of the batch has its result and no call was issued for it
C4_Witness ==
  /\ batch[1].pc = "mapping"
  /\ \E i \in tasks(1) :
       /\ batch[1].task[i] = "done"
       /\ photo[photoOf(1, i)].similarity_date # null
       /\ batch[1].faceSimilarities[i] = photo[photoOf(1, i)].similarity
       /\ issued[photoOf(1, i)] = NoCalls

\* C5 as stated: while no service call of a checkPhotosOut call has failed, at
\* most one searchFacesByImage has been issued for each photo
C5_AtMostOneSearch ==
  NoneFailed(1) =>
    \A ph \in Photos : issued[ph].search <= 1

\* C8: when searchFacesByImage fails with an invalid-image error, the photo gets
\* similarity 0 and a similarity_date and its step returns 0, the call goes on
\* and is never rejected because of a photo; a similarity_date stays set, and a
\* later checkPhotoOut of the photo issues nothing
C8_MalformedImageIsNoMatch ==
  /\ [][\A i \in 1..MaxBatch :
          /\ (Fails(1, i) /\ batch'[1].failure.what \in InvalidImageCodes) =>
               /\ photo'[photoOf(1, i)].similarity = 0
               /\ photo'[photoOf(1, i)].similarity_date # null
               /\ batch'[1].task[i] = "done"
               /\ batch'[1].faceSimilarities[i] = 0
               /\ batch'[1].pc = "mapping"
          /\ (Called(1, i) /\ photo[photoOf(1, i)].similarity_date # null) =>
               batch'[1].task[i] = "done" /\ issued' = issued]_vars
  /\ [][\A ph \in Photos :
          photo[ph].similarity_date # null => photo'[ph].similarity_date # null]_vars
  /\ [](NotRejectedByPhoto(1))

\* the search of a photo has failed with an invalid-image error: the photo is
\* checked out with similarity 0
C8_Witness ==
  \E i \in tasks(1) :
    /\ batch[1].failure.task = i
    /\ batch[1].failure.what \in InvalidImageCodes
    /\ batch[1].faceSimilarities[i] = 0
    /\ photo[photoOf(1, i)].similarity = 0
    /\ photo[photoOf(1, i)].similarity_date # null

\* C10: when the download, the upload or the search of a photo fails with an
\* error that is no invalid-image error, the step leaves similarity and
\* similarity_date of the photo as they were and the steps of the other photos
\* as they are, the call goes on and aggregates once every photo has its
\* result, and it is never rejected because of a photo; a checkPhotoOut of a
\* photo without similarity_date issues the download
C10_PhotoFailureIsolated ==
  /\ [][\A i \in 1..MaxBatch :
          /\ (Fails(1, i) /\ batch'[1].failure.what \notin InvalidImageCodes) =>
               /\ photo'[photoOf(1, i)].similarity_date = photo[photoOf(1, i)].similarity_date
               /\ photo'[photoOf(1, i)].similarity = photo[photoOf(1, i)].similarity
               /\ batch'[1].pc = "mapping"
               /\ batch'[1].task[i] = "done"
               /\ \A j \in tasks(1) \ {i} : batch'[1].task[j] = batch[1].task[j]
          /\ (Called(1, i) /\ photo[photoOf(1, i)].similarity_date = null) =>
               /\ batch'[1].task[i] = "get"
               /\ issued'[photoOf(1, i)].get = issued[photoOf(1, i)].get + 1]_vars
  /\ [](NotRejectedByPhoto(1))
  /\ [](batch[1].pc \in {"settings", "resolved"} =>
          \A i \in tasks(1) : batch[1].task[i] = "done" /\ batch[1].faceSimilarities[i] # Pending)
  /\ []((batch[1].pc = "mapping" /\ \A i \in tasks(1) : batch[1].task[i] = "done") =>
          ENABLED Aggregate(1))

\* a call has resolved although the step of one photo failed, with a result for
\* the other photo, and the failed photo has no similarity_date
C10_Witness ==
  /\ batch[1].pc = "resolved"
  /\ \E i, j \in tasks(1) :
       /\ batch[1].faceSimilarities[i] = undefined
       /\ photo[photoOf(1, i)].similarity_date = null
       /\ batch[1].faceSimilarities[j] > 0

\* -------------------------------------------- properties of the aggregation
IsResult(x) == x # 0 /\ x # undefined

\* the entries of the results that are neither 0 nor missing
scores(b) == SelectSeq(batch[b].faceSimilarities, IsResult)

\* m is the mean of the scores rounded to two decimals (to a whole number of
\* hundredths, halves up), or 0 when there is no score
IsRoundedMean(b, m) ==
  LET n == Len(scores(b))
      total == sumOf(scores(b))
  IN IF n = 0 THEN m = 0
     ELSE 2 * n * m - n <= 2 * total /\ 2 * total < 2 * n * m + n

\* C6 as stated: like is true exactly when there are results and the mean of
\* the results that are neither 0 nor missing is greater than the threshold
C6_LikeIffMeanAboveThreshold ==
  batch[1].pc = "resolved" =>
    (batch[1].like <=>
       /\ batch[1].faceSimilarities # <<>>
       /\ scores(1) # <<>>
       /\ sumOf(scores(1)) > settings * Len(scores(1)))

\* C6, amended: like is true exactly when there are results and the mean of the
\* results that are neither 0 nor missing, rounded to two decimals (0 when
\* there is no such result), is greater than the threshold; results 80 and 90
\* have mean 85 and are liked exactly for the thresholds below 85
C6_LikeIffRoundedMeanAboveThreshold ==
  batch[1].pc = "resolved" =>
    /\ IsRoundedMean(1, batch[1].faceSimilarityMean)
    /\ batch[1].like <=>
         (batch[1].faceSimilarities # <<>> /\ batch[1].faceSimilarityMean > settings)
    /\ batch[1].faceSimilarities = <<8000, 9000>> =>
         /\ batch[1].faceSimilarityMean = 8500
         /\ batch[1].like <=> settings \in {-100, 0, 8000, 8400}

\* results 80 and 90 are liked with threshold 84
C6_Witness ==
  /\ batch[1].pc = "resolved"
  /\ batch[1].faceSimilarities = <<8000, 9000>>
  /\ settings = 8400
  /\ batch[1].like

NoScore(b) == \A i \in tasks(b) : batch[b].faceSimilarities[i] \in {0, undefined}

\* C7 as stated: a batch whose results are all 0 or missing has mean 0 and is
\* not liked, whatever the threshold
C7_NoScoreNoLike ==
  (batch[1].pc = "resolved" /\ NoScore(1)) =>
     batch[1].faceSimilarityMean = 0 /\ ~batch[1].like

\* C7, amended: a batch whose results are all 0 or missing has mean 0 whatever
\* the threshold, and is not liked for every threshold that is not negative
C7_NoScoreNoLikeUnlessNegativeThreshold ==
  (batch[1].pc = "resolved" /\ NoScore(1)) =>
     /\ batch[1].faceSimilarityMean = 0
     /\ settings >= 0 => ~batch[1].like

\* results 0 and 0 have been aggregated, with threshold 0
C7_Witness ==
  /\ batch[1].pc = "resolved"
  /\ batch[1].faceSimilarities = <<0, 0>>
  /\ settings = 0
  /\ batch[1].faceSimilarityMean = 0
  /\ ~batch[1].like

\* --------------------------------------- properties of the sync: swallowed errors
\* the processing of the image failed in the pass with an error that is not a
\* malformed-image error: indexFaces failed, or the deleteFaces or the
\* deleteObject of an unusable image failed, and the .catch only logged it
transient(p, k) ==
  \/ obs[p].reply[k] = "error"
  \/ /\ obs[p].deleteFacesFailed[k]
     /\ obs[p].calls[k] = <<"indexFaces", "deleteFaces">>
  \/ obs[p].deleteObjectFailed[k]

\* C15 as stated: when a pass has completed, an image whose processing failed
\* with an error that is not a malformed-image error has no face record and is
\* still in the bucket (so that the next pass selects it again)
C15_TransientLeftForRetry ==
  sync[1].pc = "done" =>
    \A k \in TrainKeys :
      transient(1, k) => recordsOf(collection, k) = {} /\ k \in bucket

\* the face records the pass removed for the images missing from the bucket
removedStale(p) ==
  {f \in sync[p].currentFaces \ collection : f.ExternalImageId \in sync[p].imagesToDelete}

\* the images the pass left with exactly one new face record
newlyIndexed(p) ==
  {k \in sync[p].imagesToIndex : Cardinality(recordsOf(collection, k)) = 1}

\* C20 as stated: when a pass completes, the reported deleted count is the
\* number of stale face records it removed, the reported indexed count is the
\* number of images left with exactly one new face record, and the reported
\* total is a number, the number of face records of the collection
C20_TotalsMatch ==
  sync[1].pc = "done" =>
    /\ sync[1].deletedFaces = Cardinality(removedStale(1))
    /\ sync[1].returned = Cardinality(newlyIndexed(1))
    /\ sync[1].total # NaN
    /\ sync[1].total = Cardinality(collection)

\* ------------------------------------------------------- properties of start()
\* the step is the first call of the pass being issued
passStarts == sync[1].pc # "listing" /\ sync'[1].pc = "listing"

\* the step is the create call of r failing
createFails(r) == boot.step[r] = "create" /\ boot'.step[r] = "failed"

\* the resource r is provisioned: its call has completed without an error and
\* the resource of the resolved name exists
completed(r) ==
  /\ boot.step[r] = "done"
  /\ boot.name[r] # NoName
  /\ includes(boot.existing[r], boot.name[r])

\* the pass is started only after both provisioning calls completed, and a
\* start() that was rejected never starts it
startOrdering ==
  passStarts => boot.pc = "provisioning" /\ \A r \in Resources : completed(r)

\* C11 as stated: the pass issues its first call only after both provisioning
\* calls completed successfully; when a create call fails, start() fails with
\* the error of that create call and the pass is never started.
C11_StartupOrdering ==
  [][/\ startOrdering
     /\ \A r \in Resources :
          createFails(r) => boot'.pc = "rejected" /\ boot'.error = "create " \o r]_vars

\* C11 amended: the pass issues its first call only after both provisioning
\* calls completed successfully; when a create call fails, start() fails, with
\* the error of that create call unless the other provisioning call failed
\* before it, in which case start() has failed with that earlier error and
\* keeps it; in both cases the pass is never started.
C11_StartupOrderingFirstError ==
  [][/\ startOrdering
     /\ \A r \in Resources :
          createFails(r) =>
            /\ boot'.pc = "rejected"
            /\ boot'.error = IF boot.pc = "rejected" THEN boot.error ELSE "create " \o r]_vars

\* both create calls were issued and both failed: start() is rejected with the
\* error of the collection's, and no pass was ever started
C11_Witness ==
  /\ boot.pc = "rejected"
  /\ boot.error = "create collection"
  /\ \A r \in Resources : boot.step[r] = "failed" /\ boot.created[r] = 1
  /\ obs[1].started = 0
  /\ sync[1].pc = "idle"

\* ------------------------------------------------ properties of the provisioning
\* the step is the listing of r replying
listed(r) == boot.step[r] = "list" /\ boot'.step[r] \in {"create", "done"}

\* name is the first of the list that starts with get-me-a-date-
firstPrefixed(list, name) ==
  \E i \in 1..Len(list) :
    /\ list[i] = name
    /\ name[1] = Prefix
    /\ \A j \in 1..(i - 1) : list[j][1] # Prefix

\* name is what the rule resolves: the name already set, else the first listed
\* one with the prefix, else a minted one
resolves(r, name) ==
  IF boot.name[r] # NoName THEN name = boot.name[r]
  ELSE IF \E i \in 1..Len(boot.existing[r]) : boot.existing[r][i][1] = Prefix
    THEN firstPrefixed(boot.existing[r], name)
    ELSE name = MintedName /\ name[1] = Prefix

\* C12: each provisioning call resolves one name (the configured name, else the
\* first existing resource whose name starts with get-me-a-date-, else a minted
\* name) and issues a create call exactly when the resolved name is not in the
\* listing; after a successful call the resolved resource exists; a call after
\* a successful one issues no create call and resolves the same name; and no
\* resource that exists is ever removed.
C12_IdempotentProvisioning ==
  [][\A r \in Resources :
       /\ listed(r) =>
            /\ resolves(r, boot'.name[r])
            /\ boot'.step[r] = "create" <=>
                 \A i \in 1..Len(boot.existing[r]) : boot.existing[r][i] # boot'.name[r]
            /\ boot'.created[r] = IF boot'.step[r] = "create" THEN 1 ELSE 0
            /\ boot.settled[r] # NoName =>
                 boot'.name[r] = boot.settled[r] /\ boot'.step[r] = "done"
       /\ boot'.step[r] = "done" =>
            \E i \in 1..Len(boot'.existing[r]) : boot'.existing[r][i] = boot'.name[r]
       /\ \A i \in 1..Len(boot.existing[r]) :
            i <= Len(boot'.existing[r]) /\ boot'.existing[r][i] = boot.existing[r][i]]_vars

\* the second call for the collection has completed without a create call,
\* after the first one minted a name and created the collection
C12_Witness ==
  /\ boot.calls["collection"] = 2
  /\ boot.step["collection"] = "done"
  /\ boot.created["collection"] = 0
  /\ boot.name["collection"] = MintedName
  /\ boot.existing["collection"] = <<ConfiguredName, MintedName>>

\* ------------------------------------------- properties of two concurrent passes
\* the pass of p has read its snapshot and computed its differences, and no
\* call of it has failed the pass
diffed(p) == sync[p].pc \in {"syncing", "done"}

\* C19: nothing keeps a pass from starting while another one is under way; two
\* passes that read the same snapshot select the same images to index and the
\* same face ids to delete; and a pass issues indexFaces for an image it
\* selected whether or not the other pass has issued it for that image.
C19_UnguardedConcurrentSync ==
  \A p \in Procs : \A q \in Procs \ {p} :
    /\ (sync[p].pc = "idle" /\ obs[p].started = 0) => ENABLED SyncStart(p)
    /\ ( /\ diffed(p) /\ diffed(q)
         /\ sync[p].currentFaces = sync[q].currentFaces
         /\ sync[p].availableImages = sync[q].availableImages ) =>
         /\ sync[p].imagesToIndex = sync[q].imagesToIndex
         /\ sync[p].facesToDelete = sync[q].facesToDelete
    /\ \A k \in TrainKeys :
         ( /\ sync[p].pc = "syncing"
           /\ sync[p].item[k] = "queued"
           /\ sync[q].item[k] # "none" ) => ENABLED MapStart(p, k)

\* both passes have completed; each was told to delete the same face id and
\* each indexed the same image, with one face record in the response, and the
\* collection holds two face records of that image
C19_Witness ==
  \E k \in TrainKeys :
    /\ sync[1].pc = "done" /\ sync[2].pc = "done"
    /\ sync[1].facesToDelete # {}
    /\ sync[1].facesToDelete = sync[2].facesToDelete
    /\ obs[1].calls[k] = <<"indexFaces">> /\ obs[2].calls[k] = <<"indexFaces">>
    /\ k \in oneFace(1) \cap oneFace(2)
    /\ Cardinality(recordsOf(collection, k)) = 2
    /\ recordsOf(obs[1].before, k) = {}

\* ------------------------------------------------- properties of mentalSnapshot
\* the path with prepend put before its last segment, the file name
renamed(path, prepend) ==
  SubSeq(path, 1, Len(path) - 1) \o <<prepend \o path[Len(path)]>>

\* C13 as stated: the photo passed to mentalSnapshot keeps its url, similarity
\* and similarity_date whether the call succeeds or fails, and no face search
\* is issued; on success the call returns the URL of the uploaded 84x84
\* variant, whose key has 84x84_ put before the file name segment; without a
\* channel or a photo the call fails with an argument error and issues no
\* download and no upload.
C13_SnapshotLeavesPhoto ==
  /\ snap.photo \in Photos => photo[snap.photo] = snap.before
  /\ \A ph \in Photos : issued[ph].search = 0
  /\ snap.pc = "resolved" =>
       LET key == renamed(pathnameOf(Channel, snap.before.url, ""), "84x84_")
       IN /\ snap.value = S3Url(Channel, key)
          /\ photoKey(Channel, key) \in bucket
  /\ (snap.pc = "rejected" /\ snap.error = "invalid arguments") =>
       \A ph \in Photos : issued[ph] = NoCalls

\* --------------------------------------------------- properties of acquireTaste
entries == 1..Len(acq.photos)

\* the URL path of the photo of entry i
pathOf(i) == photo[acq.photos[i]].url.path

\* the path is /<bucket>/photos/<channel>/<file>
stored(i) ==
  /\ Len(pathOf(i)) >= 4
  /\ pathOf(i)[1] = BucketName
  /\ pathOf(i)[2] = "photos"

\* train/<channel>/<file> of such a path
trainKey(i) == <<"train", pathOf(i)[3]>> \o SubSeq(pathOf(i), 4, Len(pathOf(i)))

\* indexFaces was issued for entry i
indexIssued(i) == acq.item[i] \notin {"none", "queued"}

\* C14: for a photo whose URL path is /<bucket>/photos/<channel>/<file>, the
\* copy acquireTaste issues reads that path and writes the key
\* train/<channel>/<file>, and that key is the one handed to indexFaces for the
\* photo; indexing starts only when the copy of every such photo is done.
C14_AcquisitionKeyMapping ==
  \A i \in entries :
    stored(i) =>
      /\ acq.copy[i] # "skipped"
      /\ acq.copy[i] # "queued" =>
           /\ acq.srcKey[i] = pathOf(i)
           /\ acq.dstKey[i] = trainKey(i)
           /\ acq.dstKey[i][1] = "train"
      /\ acq.copy[i] = "done" => acq.images[i] = trainKey(i)
      /\ acq.pc \in {"indexing", "resolved"} => acq.copy[i] = "done"
      /\ indexIssued(i) => acq.images[i] = trainKey(i)

\* the call has resolved after it copied photos/channel123/user1/f1.jpg to
\* train/channel123/user1/f1.jpg and indexed one face under that key
C14_Witness ==
  /\ acq.pc = "resolved"
  /\ acq.photos = <<1>>
  /\ photo[1].url.path = <<BucketName, "photos", Channel, "user1", "f1.jpg">>
  /\ acq.images[1] = <<"train", Channel, "user1", "f1.jpg">>
  /\ acq.indexedFaces = 1
  /\ \E f \in collection : f.ExternalImageId = <<"train", Channel, "user1", "f1.jpg">>
  /\ <<"train", Channel, "user1", "f1.jpg">> \in bucket

upserts(what) == {i \in 1..Len(inbox.messages) : inbox.upsert[i] = what}

\* C18: the upserts of a batch are issued one at a time in list order: the
\* upsert of a message is issued only after those of all messages before it
\* have completed, so no two upserts of a batch are in flight together; and
\* after an upsert has failed no later message of the batch is upserted.
C18_SequentialUpserts ==
  /\ Cardinality(upserts("upsert")) <= 1
  /\ \A i \in 1..Len(inbox.messages) :
       /\ inbox.upsert[i] # "queued" =>
            \A j \in 1..Len(inbox.messages) : j < i => inbox.upsert[j] = "done"
       /\ inbox.upsert[i] = "failed" =>
            /\ inbox.pc = "rejected"
            /\ \A j \in 1..Len(inbox.messages) : j > i => inbox.upsert[j] = "queued"

\* the first of three messages was upserted, the upsert of the second failed
\* and the third, which is in no earlier batch, has no row
C18_Witness ==
  /\ inbox.pc = "rejected"
  /\ inbox.messages = <<<<Channel, 1>>, <<Channel, 1>>, <<Channel, 2>>>>
  /\ inbox.upsert = <<"done", "failed", "queued">>
  /\ inbox.table = {<<Channel, 1>>}

\* ------------------------------------------------ properties of the batch calls
\* the items of the check-out batch whose mapper has started and not finished
checkingOut == {i \in 1..Len(batch[1].photos) : batch[1].task[i] \notin {"queued", "done"}}

\* the items of the copy batch whose copy is issued and has not replied
copying == {i \in entries : acq.copy[i] \notin {"queued", "skipped", "done", "failed"}}

\* the items of the indexing batch whose mapper has started and not finished
indexing == {i \in entries : acq.item[i] \notin {"none", "queued", "done"}}

\* C16: in a batch of photo check-out, of object copy or of face indexing at
\* most 2 items are in flight at any moment, and the step that follows the
\* batch (settings and max/min/mean, the start of indexing after the copies,
\* the indexed count) begins only when every item of the batch has finished.
C16_BoundedConcurrency ==
  /\ Cardinality(checkingOut) <= 2
  /\ Cardinality(copying) <= 2
  /\ Cardinality(indexing) <= 2
  /\ batch[1].pc \in {"settings", "resolved"} =>
       \A i \in 1..Len(batch[1].photos) : batch[1].task[i] = "done"
  /\ (acq.pc \in {"indexing", "resolved"} \/ \E i \in entries : acq.item[i] # "none") =>
       \A i \in entries : acq.copy[i] \in {"done", "skipped"}
  /\ acq.pc = "resolved" => \A i \in entries : acq.item[i] = "done"

\* two of the three photos of a check-out batch are in flight and the third
\* waits
C16_Witness ==
  /\ Len(batch[1].photos) = 3
  /\ Cardinality(checkingOut) = 2
  /\ \E i \in 1..3 : batch[1].task[i] = "queued"

====
